---- MODULE Spec2Model ----
(***************************************************************************)
(* A model of the double-helix geometry and junction-assignment engine:    *)
(* DoubleHelices.compute(), DoubleHelices.strands() and the strand         *)
(* extension routines Strand.generate() / Strand.leftgenerate().           *)
(*                                                                         *)
(* Real numbers are modelled exactly, on an integer grid: angles are in    *)
(* degrees, z-coordinates and the padding in one common length unit, and   *)
(* x-coordinates in units of 1/XScale of a domain width.  theta_b and Z_b  *)
(* are even, so that the half steps theta_b/2 and Z_b/2 are on the grid.   *)
(* Floating-point rounding is not modelled.                                *)
(*                                                                         *)
(* Python sequences are 0-based; At(s, i) reads the model's sequence s at  *)
(* the Python index i.                                                     *)
(***************************************************************************)
EXTENDS Integers, Sequences, FiniteSets, TLC

VARIABLES
    profile,    \* the nucleic acid profile (theta_b, Z_b, Z_mate, g, B)
    domains,    \* the list returned by Domains.domains()
    padding,    \* the padding argument of compute()
    helices,    \* per double helix, per direction: the z / angle / x arrays
    pc,         \* where the engine is in its lifecycle
    jpos,       \* position of the junction pass: <<index, helix1, helix2, point1>>
    strands,    \* the Strand objects made by strands(): their items
    topo,       \* per helix point: junctable, juncmate, junction, matching
    writes,     \* per helix point: how often strands() wrote junctable/juncmate
    last,       \* the last strand operation and the strand's items before it
    bases,      \* per helix point: the base of a Nucleoside
    nops,       \* how many strand operations have run
    template,   \* the Domains object: template subunit, symmetry, antiparallel
    closed      \* per Strand object: its closed flag

vars == <<profile, domains, padding, helices, pc, jpos, strands, topo, writes, last,
          bases, nops, template, closed>>

----------------------------------------------------------------------------
(* Bounds of the model.                                                    *)

MaxDomains == 2
MaxCount == 1
MaxPadding == 2
MaxGen == 2
MaxOps == 3
MaxSeqLen == 2
MaxSubunit == 3
MaxSymmetry == 3

----------------------------------------------------------------------------
(* Constants of the program.                                               *)

UP == "UP"
DOWN == "DOWN"
Directions == {UP, DOWN}
RIGHT == "RIGHT"
LEFT == "LEFT"

FullTurn == 360

\* x-coordinates are kept in units of 1/XScale domain widths
XScale == 720

inverse(direction) == IF direction = UP THEN DOWN ELSE UP

----------------------------------------------------------------------------
(* Arithmetic helpers.                                                     *)

Abs(a) == IF a < 0 THEN -a ELSE a

Min(a, b) == IF a <= b THEN a ELSE b

\* ceil(a / b) for b # 0
CeilDiv(a, b) == IF b > 0 THEN -((-a) \div b) ELSE -(a \div (-b))

\* int(a / b) for b > 0: truncation towards zero
TruncDiv(a, b) == IF a >= 0 THEN a \div b ELSE -((-a) \div b)

At(s, i) == s[i + 1]

\* numpy.arange(start, stop, step): start + i*step for i < ceil((stop-start)/step)
arange(start, stop, step) ==
    LET n == CeilDiv(stop - start, step)
    IN  [i \in 1..(IF n > 0 THEN n ELSE 0) |-> start + (i - 1) * step]

\* numpy.flip
flip(s) == [i \in 1..Len(s) |-> s[Len(s) + 1 - i]]

\* s[start:stop:2] of a Python sequence, for 0 <= start
Slice2(s, start, stop) ==
    LET end == Min(stop, Len(s))
        n == IF end > start THEN CeilDiv(end - start, 2) ELSE 0
    IN  [i \in 1..n |-> At(s, start + 2 * (i - 1))]

\* numpy.argmax: the 0-based index of the first largest element (s not empty)
argmax(s) ==
    CHOOSE i \in 0..(Len(s) - 1) :
        /\ \A j \in 0..(Len(s) - 1) : At(s, j) <= At(s, i)
        /\ \A j \in 0..(i - 1) : At(s, j) < At(s, i)

----------------------------------------------------------------------------
(* Point.x_coord_from_angle: the angle -> x mapping of a domain.  The      *)
(* helix is seen from the side: the front of the helix (angles below the   *)
(* exterior angle) runs left to right, the back runs right to left.        *)

x_coord_from_angle(angle, theta_m, index) ==
    LET a == angle % FullTurn
        theta_interior == theta_m
        theta_exterior == FullTurn - theta_m
    IN  IF a < theta_exterior
        THEN index * XScale + (a * XScale) \div theta_exterior
        ELSE index * XScale + ((FullTurn - a) * XScale) \div theta_interior

x_coords_from_angles(angles, theta_m, index) ==
    [i \in 1..Len(angles) |-> x_coord_from_angle(angles[i], theta_m, index)]

----------------------------------------------------------------------------
(* DoubleHelix: the helices of one domain.                                 *)

EmptyData == [z_coords |-> <<>>, angles |-> <<>>, x_coords |-> <<>>]

EmptyDoubleHelix == [h \in Directions |-> EmptyData]

\* the zeroed helix is the domain's left helix
zeroed_direction(domain) == domain.left_helix_joint

other_direction(domain) == inverse(domain.left_helix_joint)

right_helix(double_helix, domain) == double_helix[domain.right_helix_joint]

----------------------------------------------------------------------------
(* DoubleHelices.compute()                                                 *)

\* whether the look-up of the anchor z in the previous right-joint helix
\* raises: argmax of an empty array, or an index past the NEMid z array
AlignedRaises(previous_right, B) ==
    LET xs == Slice2(previous_right.x_coords, 1, B * 2 + 1)
        zs == Slice2(previous_right.z_coords, 1, Len(previous_right.z_coords))
    IN  \/ Len(xs) = 0
        \/ argmax(xs) >= Len(zs)

\* an anchor looked up among all the NEMids of the previous right-joint helix
aligned_z_coord_whole_helix(index, previous_right, prof) ==
    IF index = 0
    THEN 0
    ELSE LET xs == Slice2(previous_right.x_coords, 1, Len(previous_right.x_coords))
             zs == Slice2(previous_right.z_coords, 1, Len(previous_right.z_coords))
             decrease_interval == Abs(prof.Z_b * prof.B)
         IN  At(zs, argmax(xs)) % decrease_interval

\* the anchor z of domain `index`
aligned_z_coord(index, previous_right, prof) ==
    IF index = 0
    THEN 0
    ELSE LET xs == Slice2(previous_right.x_coords, 1, prof.B * 2 + 1)
             zs == Slice2(previous_right.z_coords, 1, Len(previous_right.z_coords))
             decrease_interval == Abs(prof.Z_b * prof.B)
         IN  At(zs, argmax(xs)) % decrease_interval

\* initial_z_coord % Z_b and the shifts that lead back to the anchor
shifts_of(aligned, prof) ==
    TruncDiv((aligned % prof.Z_b) - aligned, prof.Z_b)

\* a zeroed helix that starts a whole step, not a whole and a half, below
zeroed_data_no_half_step(aligned, domain, index, prof, pad) ==
    LET shifts == shifts_of(aligned, prof)
        count == domain.left_helix_count
        initial_z_coord == (aligned % prof.Z_b) - (count.bottom_count * prof.Z_b)
        initial_angle == ((shifts * prof.theta_b)
                          - (count.bottom_count * prof.theta_b)
                          - (prof.theta_b \div 2)) % FullTurn
        whole == count.bottom_count + count.body_count + count.top_count
        final_z_coord == initial_z_coord + whole * prof.Z_b + (prof.Z_b \div 2)
        final_angle == initial_angle + whole * prof.theta_b + (prof.theta_b \div 2)
        zs == arange(initial_z_coord, final_z_coord + pad, prof.Z_b \div 2)
        as == arange(initial_angle, final_angle + pad, prof.theta_b \div 2)
    IN  [z_coords |-> zs, angles |-> as,
         x_coords |-> x_coords_from_angles(as, domain.theta_m, index)]

\* the arrays of the zeroed helix, before any reversal
zeroed_data(aligned, domain, index, prof, pad) ==
    LET shifts == shifts_of(aligned, prof)
        count == domain.left_helix_count
        initial_z_coord == (aligned % prof.Z_b)
                           - (count.bottom_count * prof.Z_b)
                           - (prof.Z_b \div 2)
        initial_angle == ((shifts * prof.theta_b)
                          - (count.bottom_count * prof.theta_b)
                          - (prof.theta_b \div 2)) % FullTurn
        \* increments = 0.5 + bottom + body + top
        whole == count.bottom_count + count.body_count + count.top_count
        final_z_coord == initial_z_coord + whole * prof.Z_b + (prof.Z_b \div 2)
        final_angle == initial_angle + whole * prof.theta_b + (prof.theta_b \div 2)
        zs == arange(initial_z_coord, final_z_coord + pad, prof.Z_b \div 2)
        as == arange(initial_angle, final_angle + pad, prof.theta_b \div 2)
    IN  [z_coords |-> zs, angles |-> as,
         x_coords |-> x_coords_from_angles(as, domain.theta_m, index)]

\* an other helix that is offset to the same side whatever its direction
other_data_one_sign(aligned, domain, index, prof, pad) ==
    LET shifts == shifts_of(aligned, prof)
        aligned_angle == 0
        count == domain.other_helix_count
        initial_angle == aligned_angle
                         + (shifts * prof.theta_b)
                         - prof.g
                         - (count.bottom_count * prof.theta_b)
                         - (prof.theta_b \div 2)
        initial_z_coord == aligned
                           + (shifts * prof.Z_b)
                           - prof.Z_mate
                           - (count.bottom_count * prof.Z_b)
                           - (prof.Z_b \div 2)
        whole == count.bottom_count + count.body_count + count.top_count
        final_angle == initial_angle + whole * prof.theta_b + (prof.theta_b \div 2)
        final_z_coord == initial_z_coord + whole * prof.Z_b + (prof.Z_b \div 2)
        zs == arange(initial_z_coord, final_z_coord + pad, prof.Z_b \div 2)
        as == arange(initial_angle, final_angle + pad, prof.theta_b \div 2)
    IN  [z_coords |-> zs, angles |-> as,
         x_coords |-> x_coords_from_angles(as, domain.theta_m, index)]

\* the arrays of the other helix, before any reversal
other_data(aligned, domain, index, prof, pad) ==
    LET shifts == shifts_of(aligned, prof)
        modifier == IF other_direction(domain) = DOWN THEN -1 ELSE 1
        aligned_angle == 0
        count == domain.other_helix_count
        initial_angle == aligned_angle
                         + (shifts * prof.theta_b)
                         + ((-modifier) * prof.g)
                         - (count.bottom_count * prof.theta_b)
                         - (prof.theta_b \div 2)
        initial_z_coord == aligned
                           + (shifts * prof.Z_b)
                           + ((-modifier) * prof.Z_mate)
                           - (count.bottom_count * prof.Z_b)
                           - (prof.Z_b \div 2)
        whole == count.bottom_count + count.body_count + count.top_count
        final_angle == initial_angle + whole * prof.theta_b + (prof.theta_b \div 2)
        final_z_coord == initial_z_coord + whole * prof.Z_b + (prof.Z_b \div 2)
        zs == arange(initial_z_coord, final_z_coord + pad, prof.Z_b \div 2)
        as == arange(initial_angle, final_angle + pad, prof.theta_b \div 2)
    IN  [z_coords |-> zs, angles |-> as,
         x_coords |-> x_coords_from_angles(as, domain.theta_m, index)]

\* a reversal that leaves the x array as generated
flip_data_keep_x(data) ==
    [z_coords |-> flip(data.z_coords),
     angles |-> flip(data.angles),
     x_coords |-> data.x_coords]

\* the reversal of the down helix
flip_data(data) ==
    [z_coords |-> flip(data.z_coords),
     angles |-> flip(data.angles),
     x_coords |-> flip(data.x_coords)]

\* an iteration that reverses the other helix, whichever its direction
compute_double_helix_flip_other(index, previous_right, domain, prof, pad) ==
    LET aligned == aligned_z_coord(index, previous_right, prof)
        zeroed == zeroed_data(aligned, domain, index, prof, pad)
        other == other_data(aligned, domain, index, prof, pad)
    IN  [h \in Directions |->
            IF h = zeroed_direction(domain) THEN zeroed ELSE flip_data(other)]

\* one iteration of the loop of compute(): the double helix of domain `index`
compute_double_helix(index, previous_right, domain, prof, pad) ==
    LET aligned == aligned_z_coord(index, previous_right, prof)
        zeroed == zeroed_data(aligned, domain, index, prof, pad)
        other == other_data(aligned, domain, index, prof, pad)
        unflipped == [h \in Directions |->
                        IF h = zeroed_direction(domain) THEN zeroed ELSE other]
    IN  [h \in Directions |->
            IF h = DOWN THEN flip_data(unflipped[h]) ELSE unflipped[h]]

\* a loop that wraps around: after the last iteration the double helix of
\* domain 0 is computed again, anchored on the last domain's right-joint helix
RECURSIVE compute_upto_wrapping(_, _, _, _, _)
compute_upto_wrapping(n, doms, prof, pad, before) ==
    IF n = 0
    THEN [raised |-> FALSE, double_helices |-> before]
    ELSE LET sofar == compute_upto_wrapping(n - 1, doms, prof, pad, before)
             index == n - 1
             previous_right ==
                 IF index = 0
                 THEN EmptyData
                 ELSE right_helix(At(sofar.double_helices, index - 1),
                                  At(doms, index - 1))
             result ==
                 IF sofar.raised
                 THEN sofar
                 ELSE IF index > 0 /\ AlignedRaises(previous_right, prof.B)
                 THEN [raised |-> TRUE, double_helices |-> sofar.double_helices]
                 ELSE [raised |-> FALSE,
                       double_helices |->
                           [sofar.double_helices EXCEPT ![n] =
                               compute_double_helix(index, previous_right,
                                                    At(doms, index), prof, pad)]]
             last_right == right_helix(At(result.double_helices, n - 1),
                                       At(doms, n - 1))
         IN  IF n = Len(doms) /\ n > 1 /\ ~result.raised
                /\ ~AlignedRaises(last_right, prof.B)
             THEN LET aligned == aligned_z_coord(n, last_right, prof)
                      zeroed == zeroed_data(aligned, At(doms, 0), 0, prof, pad)
                      other == other_data(aligned, At(doms, 0), 0, prof, pad)
                      unflipped == [h \in Directions |->
                                      IF h = zeroed_direction(At(doms, 0))
                                      THEN zeroed ELSE other]
                  IN  [raised |-> FALSE,
                       double_helices |->
                           [result.double_helices EXCEPT ![1] =
                               [h \in Directions |->
                                   IF h = DOWN THEN flip_data(unflipped[h])
                                   ELSE unflipped[h]]]]
             ELSE result

\* the double helices after the iterations 0 .. n-1 of the loop, and whether
\* one of them raised (the loop stops there, the later helices keep their data)
RECURSIVE compute_upto(_, _, _, _, _)
compute_upto(n, doms, prof, pad, before) ==
    IF n = 0
    THEN [raised |-> FALSE, double_helices |-> before]
    ELSE LET sofar == compute_upto(n - 1, doms, prof, pad, before)
             index == n - 1
             previous_right ==
                 IF index = 0
                 THEN EmptyData
                 ELSE right_helix(At(sofar.double_helices, index - 1),
                                  At(doms, index - 1))
         IN  IF sofar.raised
             THEN sofar
             ELSE IF index > 0 /\ AlignedRaises(previous_right, prof.B)
             THEN [raised |-> TRUE, double_helices |-> sofar.double_helices]
             ELSE [raised |-> FALSE,
                   double_helices |->
                       [sofar.double_helices EXCEPT ![n] =
                           compute_double_helix(index, previous_right,
                                                At(doms, index), prof, pad)]]

----------------------------------------------------------------------------
(* Points and strands.                                                     *)

NEMid == "NEMid"
Nucleoside == "Nucleoside"

\* the juncmate / matching of a point that has none
None == <<0, "None", 0>>

\* two z-coordinates closer than this coincide: below the resolution of the
\* grid
Tolerance == 1

\* two x-coordinates closer than this coincide: a hundred and forty-fourth of
\* a domain width
XTolerance == 5

\* s[start::step] of a Python sequence, for start >= 0 and step # 0
SliceFrom(s, start, step) ==
    LET n == IF step > 0
             THEN (IF Len(s) > start THEN CeilDiv(Len(s) - start, step) ELSE 0)
             ELSE (IF Len(s) = 0 THEN 0
                   ELSE (Min(start, Len(s) - 1) \div (-step)) + 1)
        first == IF step > 0 THEN start ELSE Min(start, Len(s) - 1)
    IN  [i \in 1..n |-> At(s, first + (i - 1) * step)]

\* zip(a, b)
zip(a, b) == [i \in 1..Min(Len(a), Len(b)) |-> <<a[i], b[i]>>]

\* Helix.strand(): the points of a helix, Nucleosides at the even and NEMids
\* at the odd indices, one per sample that has an x, a z and an angle
helix_items(d, h, data) ==
    LET n == Min(Len(data.x_coords), Min(Len(data.z_coords), Len(data.angles)))
    IN  [i \in 1..n |->
            [id |-> <<d, h, i - 1>>,
             kind |-> IF (i - 1) % 2 = 0 THEN Nucleoside ELSE NEMid,
             x_coord |-> data.x_coords[i],
             z_coord |-> data.z_coords[i],
             angle |-> data.angles[i],
             domain |-> d - 1,
             direction |-> h]]

\* the strands of the double helices, in the order of the returned container:
\* up helix, then down helix, of each double helix in turn
StrandIndex(d, h) == 2 * (d - 1) + (IF h = UP THEN 1 ELSE 2)

StrandOf(d, h) == strands[StrandIndex(d, h)]

\* Point.overlaps(point, width): the positions coincide once x is taken
\* modulo the width
overlaps(point1, point2, width) ==
    /\ Abs((point1.x_coord % (width * XScale)) - (point2.x_coord % (width * XScale)))
           < XTolerance
    /\ Abs(point1.z_coord - point2.z_coord) < Tolerance

DefaultTopo ==
    [junctable |-> FALSE, juncmate |-> None, junction |-> FALSE, matching |-> None]

----------------------------------------------------------------------------
(* DoubleHelices.strands(): the junction pass.                             *)

\* the pre-filter and the overlap test of one pair of NEMids
PairMatches(point1, point2, width) ==
    /\ point1.x_coord % XScale = point2.x_coord % XScale
    /\ overlaps(point1, point2, width)

\* a pairing that records the juncmate on the first point only
assign_pair_one_sided(st, point1, point2) ==
    [topo |-> [[[st.topo EXCEPT ![point1.id].junctable = TRUE]
                         EXCEPT ![point1.id].juncmate = point2.id]
                         EXCEPT ![point2.id].junctable = TRUE],
     writes |-> [[st.writes EXCEPT ![point1.id] = @ + 1]
                            EXCEPT ![point2.id] = @ + 1]]

\* a pairing that also promotes both points to an active junction
assign_pair_promoting(st, point1, point2) ==
    [topo |-> [[[[[[st.topo EXCEPT ![point1.id].junctable = TRUE]
                            EXCEPT ![point1.id].juncmate = point2.id]
                            EXCEPT ![point1.id].junction = TRUE]
                            EXCEPT ![point2.id].junctable = TRUE]
                            EXCEPT ![point2.id].juncmate = point1.id]
                            EXCEPT ![point2.id].junction = TRUE],
     writes |-> [[st.writes EXCEPT ![point1.id] = @ + 1]
                            EXCEPT ![point2.id] = @ + 1]]

\* a pairing that leaves alone a point that was already paired
assign_pair_write_once(st, point1, point2) ==
    LET first == IF st.writes[point1.id] = 0
                 THEN [topo |-> [[st.topo EXCEPT ![point1.id].junctable = TRUE]
                                          EXCEPT ![point1.id].juncmate = point2.id],
                       writes |-> [st.writes EXCEPT ![point1.id] = @ + 1]]
                 ELSE st
    IN  IF first.writes[point2.id] = 0
        THEN [topo |-> [[first.topo EXCEPT ![point2.id].junctable = TRUE]
                                    EXCEPT ![point2.id].juncmate = point1.id],
              writes |-> [first.writes EXCEPT ![point2.id] = @ + 1]]
        ELSE first

\* the four assignments made for a pair that matches
assign_pair(st, point1, point2) ==
    [topo |-> [[[[st.topo EXCEPT ![point1.id].junctable = TRUE]
                          EXCEPT ![point1.id].juncmate = point2.id]
                          EXCEPT ![point2.id].junctable = TRUE]
                          EXCEPT ![point2.id].juncmate = point1.id],
     writes |-> [[st.writes EXCEPT ![point1.id] = @ + 1]
                            EXCEPT ![point2.id] = @ + 1]]

\* a test that never pairs a NEMid with itself
test_pair_other_points(point1, point2, width) ==
    /\ point1.id # point2.id
    /\ point1.x_coord % XScale = point2.x_coord % XScale
    /\ overlaps(point1, point2, width)

\* a test that takes the pre-filter alone for the full test
test_pair_prefilter_only(point1, point2, width) ==
    point1.x_coord % XScale = point2.x_coord % XScale

test_pair(point1, point2, width) == PairMatches(point1, point2, width)

\* the inner loop: point1 against the first j NEMids of helix2
RECURSIVE junction_row(_, _, _, _, _)
junction_row(j, point1, points2, width, st) ==
    IF j = 0
    THEN st
    ELSE LET before == junction_row(j - 1, point1, points2, width, st)
             point2 == At(points2, j - 1)
         IN  IF test_pair(point1, point2, width)
             THEN assign_pair(before, point1, point2)
             ELSE before

\* the double helix after `index` in the cyclic order
next_index(index, n) == IF index = n - 1 THEN 0 ELSE index + 1

\* the NEMids the loops of one pair of helices run over
junction_points1(index, helix1) == SliceFrom(StrandOf(index + 1, helix1), 1, 2)

junction_points2(index, helix2) ==
    SliceFrom(StrandOf(next_index(index, Len(domains)) + 1, helix2), 1, 2)

\* one iteration of the loop over point1: the i-th NEMid of helix1 against
\* every NEMid of helix2 (nothing when helix1 has no i-th NEMid)
junction_step(index, helix1, helix2, i, st) ==
    LET points1 == junction_points1(index, helix1)
        points2 == junction_points2(index, helix2)
    IN  IF i < Len(points1)
        THEN junction_row(Len(points2), At(points1, i), points2, Len(domains), st)
        ELSE st

----------------------------------------------------------------------------
(* DoubleHelices.strands(): the matching pass.                             *)

\* a matching pass that records the partner on the up item only
RECURSIVE matching_pairs_one_sided(_, _, _)
matching_pairs_one_sided(t, pairs, tp) ==
    IF t = 0
    THEN tp
    ELSE LET before == matching_pairs_one_sided(t - 1, pairs, tp)
             item1 == pairs[t][1]
             item2 == pairs[t][2]
         IN  [before EXCEPT ![item1.id].matching = item2.id]

\* the assignments of the matching loop for the first t pairs
RECURSIVE matching_pairs(_, _, _)
matching_pairs(t, pairs, tp) ==
    IF t = 0
    THEN tp
    ELSE LET before == matching_pairs(t - 1, pairs, tp)
             item1 == pairs[t][1]
             item2 == pairs[t][2]
         IN  [[before EXCEPT ![item1.id].matching = item2.id]
                      EXCEPT ![item2.id].matching = item1.id]

\* the pairs of one double helix
matching_zip(d) ==
    zip(SliceFrom(StrandOf(d, UP), 0, 2), SliceFrom(StrandOf(d, DOWN), 0, -2))

RECURSIVE matching_upto(_, _)
matching_upto(d, tp) ==
    IF d = 0
    THEN tp
    ELSE LET pairs == matching_zip(d)
         IN  matching_pairs(Len(pairs), pairs, matching_upto(d - 1, tp))

----------------------------------------------------------------------------
(* Strand.generate() / Strand.leftgenerate()                               *)

\* the domain argument that stands for "no domain passed"
NoDomain == -1

TakeFirst(s, n) == [i \in 1..Min(n, Len(s)) |-> s[i]]

\* converge_point_data(): points of alternating type, a NEMid first
converge_point_data(angles, x_coords, z_coords) ==
    [i \in 1..Min(Len(angles), Min(Len(x_coords), Len(z_coords))) |->
        [id |-> <<0, "generated", i - 1>>,
         kind |-> IF (i - 1) % 2 = 0 THEN NEMid ELSE Nucleoside,
         x_coord |-> x_coords[i],
         z_coord |-> z_coords[i],
         angle |-> angles[i],
         domain |-> NoDomain,
         direction |-> UP]]

\* deque.extend
extend(items, new_items) == items \o new_items

\* deque.extendleft: the new items are pushed to the left one after the other
leftextend(items, new_items) == flip(new_items) \o items

\* generated items that keep the direction converge_point_data() gave them
generated_items_default_direction(items, count, domain, direction, prof) ==
    LET edge_item == IF direction = RIGHT THEN At(items, Len(items) - 1)
                     ELSE At(items, 0)
        modifier == IF direction = RIGHT THEN 1 ELSE -1
        dom == IF domain # NoDomain THEN domain ELSE edge_item.domain
        theta_b == prof.theta_b
        Z_b == prof.Z_b
        initial_angle == edge_item.angle + ((theta_b \div 2) * modifier)
        initial_z_coord == edge_item.z_coord + ((Z_b \div 2) * modifier)
        final_angle == initial_angle + ((count + 1) * (theta_b * modifier))
        final_z_coord == initial_z_coord + ((count + 1) * (Z_b * modifier))
        angles == arange(initial_angle, final_angle, modifier * (theta_b \div 2))
        x_coords == [i \in 1..Len(angles) |->
                        x_coord_from_angle(angles[i], At(domains, dom).theta_m, dom)]
        z_coords == arange(initial_z_coord, final_z_coord, modifier * (Z_b \div 2))
        greatest_count == Min(Len(angles), Min(Len(x_coords), Len(z_coords)))
        new_items == converge_point_data(TakeFirst(angles, greatest_count),
                                         TakeFirst(x_coords, greatest_count),
                                         TakeFirst(z_coords, greatest_count))
    IN  [i \in 1..Len(new_items) |->
            [new_items[i] EXCEPT !.domain = dom]]

\* the items Strand._generate() makes for a non-empty strand and count # 0
generated_items(items, count, domain, direction, prof) ==
    LET edge_item == IF direction = RIGHT THEN At(items, Len(items) - 1)
                     ELSE At(items, 0)
        modifier == IF direction = RIGHT THEN 1 ELSE -1
        dom == IF domain # NoDomain THEN domain ELSE edge_item.domain
        theta_b == prof.theta_b
        Z_b == prof.Z_b
        initial_angle == edge_item.angle + ((theta_b \div 2) * modifier)
        initial_z_coord == edge_item.z_coord + ((Z_b \div 2) * modifier)
        final_angle == initial_angle + ((count + 1) * (theta_b * modifier))
        final_z_coord == initial_z_coord + ((count + 1) * (Z_b * modifier))
        angles == arange(initial_angle, final_angle, modifier * (theta_b \div 2))
        x_coords == [i \in 1..Len(angles) |->
                        x_coord_from_angle(angles[i], At(domains, dom).theta_m, dom)]
        z_coords == arange(initial_z_coord, final_z_coord, modifier * (Z_b \div 2))
        greatest_count == Min(Len(angles), Min(Len(x_coords), Len(z_coords)))
        new_items == converge_point_data(TakeFirst(angles, greatest_count),
                                         TakeFirst(x_coords, greatest_count),
                                         TakeFirst(z_coords, greatest_count))
    IN  [i \in 1..Len(new_items) |->
            [new_items[i] EXCEPT !.domain = dom,
                                 !.direction = edge_item.direction]]

\* the items of the strand after Strand._generate(count, domain, direction)
generate_items(items, count, domain, direction, prof) ==
    IF count = 0
    THEN items
    ELSE LET new_items == generated_items(items, count, domain, direction, prof)
         IN  IF direction = LEFT
             THEN leftextend(items, new_items)
             ELSE extend(items, new_items)

----------------------------------------------------------------------------
(* Domains.subunits() and Domains.domains()                                *)

\* the Domain objects are named <<cycle, position in the subunit>>

\* subunits that are all the template subunit itself, never a copy
subunits_shared(symmetry, length) ==
    [cycle \in 1..symmetry |-> [i \in 1..length |-> <<0, i - 1>>]]

\* Domains.subunits(): the template subunit, then a deep copy of it for every
\* further cycle
subunits(symmetry, length) ==
    [cycle \in 1..symmetry |-> [i \in 1..length |-> <<cycle - 1, i - 1>>]]

\* output.extend(subunit.domains) for the first k subunits
RECURSIVE extend_all(_, _)
extend_all(k, subs) ==
    IF k = 0 THEN <<>> ELSE extend_all(k - 1, subs) \o subs[k]

\* the loop that makes the directions alternate, from the i-th domain of the
\* output on; the Domain objects are changed in place
RECURSIVE alternate(_, _, _, _)
alternate(i, output, direction, heap) ==
    IF i > Len(output)
    THEN heap
    ELSE alternate(i + 1, output, inverse(direction),
                   [heap EXCEPT ![output[i]] =
                       [@ EXCEPT !.left_helix_joint = direction,
                                 !.right_helix_joint = direction]])

\* Domains.domains(): the list of all domains of all subunits
domains_of(tmpl) ==
    LET length == Len(tmpl.subunit)
        subs == subunits(tmpl.symmetry, length)
        output == extend_all(Len(subs), subs)
        copies == [ref \in {<<c, i>> : c \in 0..(tmpl.symmetry - 1),
                                      i \in 0..(length - 1)} |->
                      tmpl.subunit[ref[2] + 1]]
        direction == tmpl.subunit[length].right_helix_joint
        heap == IF tmpl.antiparallel
                THEN alternate(1, output, direction, copies)
                ELSE copies
    IN  [i \in 1..Len(output) |-> heap[output[i]]]

\* the cache of a method decorated with @cache, before its first call and
\* after cache_clear()
NoCache == [hit |-> FALSE]

\* the subunits of a list of domains: consecutive stretches of `length`
chunks(output, length) ==
    [c \in 1..(Len(output) \div length) |->
        SubSeq(output, (c - 1) * length + 1, c * length)]

\* Domains.subunits() on the Domains object obj: the object after the call
\* and what the call returns
call_subunits(obj) ==
    IF obj.subunits_cache.hit
    THEN [obj |-> obj, result |-> obj.subunits_cache]
    ELSE LET entry == [hit |-> TRUE, version |-> obj.version,
                       value |-> [cycle \in 1..obj.symmetry |-> obj.subunit]]
         IN  [obj |-> [obj EXCEPT !.subunits_cache = entry], result |-> entry]

\* Domains.domains(): on a miss the Domain objects of all subunits, those of
\* the template included, are changed in place
call_domains(obj) ==
    IF obj.domains_cache.hit
    THEN [obj |-> obj, result |-> obj.domains_cache]
    ELSE LET with_subunits == call_subunits(obj).obj
             output == domains_of(with_subunits)
             length == Len(obj.subunit)
             entry == [hit |-> TRUE, version |-> obj.version, value |-> output]
         IN  [obj |-> [with_subunits EXCEPT
                          !.subunit = SubSeq(output, 1, length),
                          !.subunits_cache.value = chunks(output, length),
                          !.domains_cache = entry],
              result |-> entry]

\* Domains.strands(): a strand per direction and domain of domains()
call_strands(obj) ==
    IF obj.strands_cache.hit
    THEN [obj |-> obj, result |-> obj.strands_cache]
    ELSE LET listed == call_domains(obj)
             output == listed.result.value
             n == Len(output)
             entry == [hit |-> TRUE, version |-> obj.version,
                       value |-> [i \in 1..(2 * n) |->
                                     [direction |-> IF i <= n THEN UP ELSE DOWN,
                                      domain |-> output[((i - 1) % n) + 1]]]]
         IN  [obj |-> [listed.obj EXCEPT !.strands_cache = entry],
              result |-> entry]

\* the setter of Domains.subunit
set_subunit(obj, new_subunit) ==
    [obj EXCEPT !.subunit = new_subunit,
                !.version = @ + 1,
                !.domains_cache = NoCache,
                !.subunits_cache = NoCache]

----------------------------------------------------------------------------
(* Strand: trimming and the base sequence.                                 *)

\* the bases a Nucleoside can carry
DNA == {"A", "T", "C", "G"}

\* the base of a Nucleoside that has none
NoBase == "None"

\* Nucleoside.complement
complement(base) ==
    CASE base = "A" -> "T"
      [] base = "T" -> "A"
      [] base = "C" -> "G"
      [] base = "G" -> "C"
      [] OTHER -> NoBase

\* itertools.islice(items, start, stop)
islice(items, start, stop) == SubSeq(items, start + 1, Min(stop, Len(items)))

\* Strand.trim(count)
trim(items, count) == islice(items, 0, count)

\* Strand.lefttrim(count)
lefttrim(items, count) == islice(items, count, Len(items))

\* Strand.nucleosides(): the Nucleosides of the strand, in order
RECURSIVE nucleosides(_)
nucleosides(items) ==
    IF Len(items) = 0
    THEN <<>>
    ELSE IF items[1].kind = Nucleoside
    THEN <<items[1]>> \o nucleosides(Tail(items))
    ELSE nucleosides(Tail(items))

\* Nucleoside.matching(): the paired Nucleoside recorded by strands()
matching_of(nucleoside, tp) == tp[nucleoside.id].matching

\* the loop of the sequence setter over the first k bases
RECURSIVE assign_sequence(_, _, _, _, _)
assign_sequence(k, nucs, new_sequence, tp, bs) ==
    IF k = 0
    THEN bs
    ELSE LET before == assign_sequence(k - 1, nucs, new_sequence, tp, bs)
             our_nucleoside == nucs[k]
             own == [before EXCEPT ![our_nucleoside.id] = new_sequence[k]]
             matching_nucleoside == matching_of(our_nucleoside, tp)
         IN  IF matching_nucleoside # None
             THEN [own EXCEPT ![matching_nucleoside] = complement(new_sequence[k])]
             ELSE own

\* a setter that finds the length mismatch only after assigning what fits
set_sequence_checking_late(items, new_sequence, tp, bs) ==
    LET nucs == nucleosides(items)
    IN  [raised |-> Len(new_sequence) # Len(nucs),
         bases |-> assign_sequence(Min(Len(new_sequence), Len(nucs)), nucs,
                                   new_sequence, tp, bs)]

\* the setter of Strand.sequence
set_sequence(items, new_sequence, tp, bs) ==
    LET nucs == nucleosides(items)
    IN  IF Len(new_sequence) = Len(nucs)
        THEN [raised |-> FALSE,
              bases |-> assign_sequence(Len(nucs), nucs, new_sequence, tp, bs)]
        ELSE [raised |-> TRUE, bases |-> bs]

\* the loop of randomize_sequence() over the first k Nucleosides; choices[k]
\* is what random.choice(DNA) returns for the k-th of them
RECURSIVE randomize_upto(_, _, _, _, _, _)
randomize_upto(k, nucs, choices, overwrite, tp, st) ==
    IF k = 0
    THEN st
    ELSE LET before == randomize_upto(k - 1, nucs, choices, overwrite, tp, st)
             nucleoside == nucs[k]
             own == [before.bases EXCEPT ![nucleoside.id] = choices[k]]
             matching_nucleoside == matching_of(nucleoside, tp)
         IN  IF before.raised
             THEN before
             ELSE IF overwrite \/ before.bases[nucleoside.id] = NoBase
             THEN IF matching_nucleoside = None
                  THEN [raised |-> TRUE, bases |-> own]
                  ELSE [raised |-> FALSE,
                        bases |-> [own EXCEPT ![matching_nucleoside] =
                                                  complement(choices[k])]]
             ELSE before

\* Strand.randomize_sequence(overwrite)
randomize_sequence(items, choices, overwrite, tp, bs) ==
    LET nucs == nucleosides(items)
    IN  randomize_upto(Len(nucs), nucs, choices, overwrite, tp,
                       [raised |-> FALSE, bases |-> bs])

\* Strand.clear_sequence(overwrite)
clear_sequence(items, overwrite, bs) ==
    LET ids == {items[i].id : i \in {j \in 1..Len(items) : items[j].kind = Nucleoside}}
    IN  [id \in DOMAIN bs |->
            IF id \in ids /\ (overwrite \/ bs[id] # NoBase) THEN NoBase ELSE bs[id]]

----------------------------------------------------------------------------
(* Plotter._plot()                                                         *)

\* the items of a strand after _plot() has drawn it: copy() gives a Strand
\* that shares the deque of the strand it copies, and the first item of a
\* closed strand is appended to it
plotted_items(items, is_closed) ==
    IF is_closed THEN Append(items, At(items, 0)) ELSE items

----------------------------------------------------------------------------
(* Inputs.                                                                 *)

Profiles ==
    { [theta_b |-> 180, Z_b |-> 2, Z_mate |-> 1, g |-> 90, B |-> 2],
      [theta_b |-> 120, Z_b |-> 4, Z_mate |-> 1, g |-> 150, B |-> 3],
      [theta_b |-> 180, Z_b |-> 2, Z_mate |-> 2, g |-> 180, B |-> 2] }

ThetaMs == {120, 180}

\* a profile of a whole turn per B bases, and one of two thirds of a turn
AnchorProfiles ==
    { [theta_b |-> 180, Z_b |-> 2, Z_mate |-> 1, g |-> 90, B |-> 2],
      [theta_b |-> 120, Z_b |-> 2, Z_mate |-> 1, g |-> 150, B |-> 2] }

\* a profile whose helix switch angle g is a right angle, and one whose g
\* falls a degree short of a half turn
SwitchProfiles ==
    { [theta_b |-> 180, Z_b |-> 2, Z_mate |-> 1, g |-> 90, B |-> 2],
      [theta_b |-> 180, Z_b |-> 2, Z_mate |-> 1, g |-> 179, B |-> 2] }

\* the profile used where the geometry does not matter
StrandProfiles == { [theta_b |-> 180, Z_b |-> 2, Z_mate |-> 1, g |-> 90, B |-> 2] }

\* the bases tried in a sequence assigned to a strand
SequenceBases == {"A", "C"}

\* the outcomes of random.choice(DNA) that are tried
RandomBases == DNA \ {"T", "C"}

HelixCounts ==
    [bottom_count : 0..MaxCount, body_count : 0..MaxCount, top_count : 0..MaxCount]

\* the counts tried for the other helix beside a given left helix count: the
\* same counts, and counts of another total
OtherCounts(left) ==
    { left,
      [bottom_count |-> left.top_count,
       body_count |-> MaxCount - left.body_count,
       top_count |-> left.bottom_count] }

\* a domain list of n domains with the given counts and interior angle
DomainLists(n, left_counts, other_counts, theta_ms) ==
    [1..n -> [left_helix_joint : Directions,
              right_helix_joint : Directions,
              left_helix_count : left_counts,
              other_helix_count : other_counts,
              theta_m : theta_ms]]

\* the template subunits tried for the cached methods: one or two domains
\* with any joints
CacheSubunits ==
    LET count == [bottom_count |-> 0, body_count |-> MaxCount, top_count |-> 0]
    IN  UNION {DomainLists(n, {count}, {count}, {120}) : n \in 1..2}

TypeOK ==
    /\ profile \in Profiles
    /\ padding \in 0..MaxPadding
    /\ Len(domains) \in 1..MaxDomains
    /\ Len(helices) = Len(domains)

Constructed ==
    /\ helices = [d \in 1..Len(domains) |-> EmptyDoubleHelix]
    /\ pc = "constructed"
    /\ jpos = <<0, UP, UP, 0>>
    /\ strands = <<>>
    /\ topo = <<>>
    /\ writes = <<>>
    /\ last = [op |-> "none"]
    /\ bases = <<>>
    /\ nops = 0
    /\ template = [subunit |-> domains, symmetry |-> 1, antiparallel |-> FALSE]
    /\ closed = <<>>

\* compute() over a wide range of inputs
InitCompute ==
    /\ profile \in Profiles
    /\ padding \in 0..MaxPadding
    /\ \E n \in 1..MaxDomains, left \in HelixCounts, theta_m \in ThetaMs :
          \E other \in OtherCounts(left) :
              domains \in DomainLists(n, {left}, {other}, {theta_m})
    /\ Constructed

----------------------------------------------------------------------------
(* Actions.                                                                *)

Compute ==
    /\ pc = "constructed"
    /\ LET result == compute_upto(Len(domains), domains, profile, padding, helices)
       IN  /\ helices' = result.double_helices
           /\ pc' = IF result.raised THEN "compute_raised" ELSE "computed"
    /\ UNCHANGED <<profile, domains, padding, jpos, strands, topo, writes, last>>
    /\ UNCHANGED <<bases, nops, template, closed>>

\* a second call that reverses the arrays of the down helices once more
ComputeAgain_reversing_again ==
    /\ pc \in {"computed", "compute_raised"}
    /\ last.op = "none"
    /\ helices' = [d \in 1..Len(helices) |->
                      [h \in Directions |->
                          IF h = DOWN THEN flip_data(helices[d][h])
                          ELSE helices[d][h]]]
    /\ last' = [op |-> "compute", pc_before |-> pc, before |-> helices]
    /\ UNCHANGED <<profile, domains, padding, pc, jpos, strands, topo, writes>>
    /\ UNCHANGED <<bases, nops, template, closed>>

\* compute() called a second time on the same DoubleHelices
ComputeAgain ==
    /\ pc \in {"computed", "compute_raised"}
    /\ last.op = "none"
    /\ LET result == compute_upto(Len(domains), domains, profile, padding, helices)
       IN  /\ helices' = result.double_helices
           /\ pc' = IF result.raised THEN "compute_raised" ELSE "computed"
    /\ last' = [op |-> "compute", pc_before |-> pc, before |-> helices]
    /\ UNCHANGED <<profile, domains, padding, jpos, strands, topo, writes>>
    /\ UNCHANGED <<bases, nops, template, closed>>

\* strands(), lines 130-140: a strand per helix
StrandsBegin ==
    /\ pc = "computed"
    /\ strands' = [i \in 1..(2 * Len(helices)) |->
                      LET d == ((i - 1) \div 2) + 1
                          h == IF i % 2 = 1 THEN UP ELSE DOWN
                      IN  helix_items(d, h, helices[d][h])]
    /\ topo' = [id \in UNION {{strands'[i][k].id : k \in 1..Len(strands'[i])} :
                                 i \in 1..Len(strands')} |-> DefaultTopo]
    /\ writes' = [id \in DOMAIN topo' |-> 0]
    /\ jpos' = <<0, UP, UP, 0>>
    /\ pc' = "junctions"
    /\ bases' = [id \in DOMAIN topo' |-> NoBase]
    /\ closed' = [i \in 1..(2 * Len(helices)) |-> FALSE]
    /\ UNCHANGED <<profile, domains, padding, helices, last>>
    /\ UNCHANGED <<nops, template>>

\* strands(), lines 145-172: one iteration of the loop over point1
JunctionStep ==
    /\ pc = "junctions"
    /\ LET index == jpos[1]
           helix1 == jpos[2]
           helix2 == jpos[3]
           i == jpos[4]
           st == junction_step(index, helix1, helix2, i,
                               [topo |-> topo, writes |-> writes])
       IN  /\ topo' = st.topo
           /\ writes' = st.writes
           /\ IF i + 1 < Len(junction_points1(index, helix1))
              THEN /\ jpos' = <<index, helix1, helix2, i + 1>>
                   /\ pc' = pc
              ELSE IF helix2 = UP
              THEN /\ jpos' = <<index, helix1, DOWN, 0>>
                   /\ pc' = pc
              ELSE IF helix1 = UP
              THEN /\ jpos' = <<index, DOWN, UP, 0>>
                   /\ pc' = pc
              ELSE IF index < Len(domains) - 1
              THEN /\ jpos' = <<index + 1, UP, UP, 0>>
                   /\ pc' = pc
              ELSE /\ jpos' = jpos
                   /\ pc' = "matching"
    /\ UNCHANGED <<profile, domains, padding, helices, strands, last>>
    /\ UNCHANGED <<bases, nops, template, closed>>

\* strands(), lines 179-194: the matching pass and the returned container
Matching ==
    /\ pc = "matching"
    /\ topo' = matching_upto(Len(domains), topo)
    /\ pc' = "done"
    /\ UNCHANGED <<profile, domains, padding, helices, jpos, strands, writes, last>>
    /\ UNCHANGED <<bases, nops, template, closed>>

\* Strand.generate(count, domain) on one of the strands
Generate ==
    /\ pc = "done"
    /\ last.op = "none"
    /\ \E s \in 1..Len(strands), count \in 0..MaxGen,
          domain \in {NoDomain} \cup (0..(Len(domains) - 1)) :
          /\ Len(strands[s]) > 0
          /\ strands' = [strands EXCEPT ![s] =
                            generate_items(strands[s], count, domain, RIGHT, profile)]
          /\ last' = [op |-> "generate", strand |-> s, count |-> count,
                      domain |-> domain, before |-> strands[s]]
    /\ UNCHANGED <<profile, domains, padding, helices, pc, jpos, topo, writes>>
    /\ UNCHANGED <<bases, nops, template, closed>>

\* Strand.leftgenerate(count, domain) on one of the strands
LeftGenerate ==
    /\ pc = "done"
    /\ last.op = "none"
    /\ \E s \in 1..Len(strands), count \in 0..MaxGen,
          domain \in {NoDomain} \cup (0..(Len(domains) - 1)) :
          /\ Len(strands[s]) > 0
          /\ strands' = [strands EXCEPT ![s] =
                            generate_items(strands[s], count, domain, LEFT, profile)]
          /\ last' = [op |-> "leftgenerate", strand |-> s, count |-> count,
                      domain |-> domain, before |-> strands[s]]
    /\ UNCHANGED <<profile, domains, padding, helices, pc, jpos, topo, writes>>
    /\ UNCHANGED <<bases, nops, template, closed>>

\* the record of a strand operation: what it was called with, whether it
\* raised, and the strand's items and all bases before it
operation(op, s, count, new_sequence, overwrite, raised) ==
    [op |-> op, strand |-> s, count |-> count, new_sequence |-> new_sequence,
     overwrite |-> overwrite, raised |-> raised,
     before |-> strands[s], bases_before |-> bases]

\* Strand.trim(count) on one of the strands
Trim ==
    /\ pc = "done"
    /\ nops < MaxOps
    /\ \E s \in 1..Len(strands) :
          \E count \in 0..Len(strands[s]) :
              /\ strands' = [strands EXCEPT ![s] = trim(strands[s], count)]
              /\ last' = operation("trim", s, count, <<>>, FALSE, FALSE)
    /\ nops' = nops + 1
    /\ UNCHANGED <<profile, domains, padding, helices, pc, jpos, topo, writes, bases>>
    /\ UNCHANGED <<template, closed>>

\* Strand.lefttrim(count) on one of the strands
LeftTrim ==
    /\ pc = "done"
    /\ nops < MaxOps
    /\ \E s \in 1..Len(strands) :
          \E count \in 0..Len(strands[s]) :
              /\ strands' = [strands EXCEPT ![s] = lefttrim(strands[s], count)]
              /\ last' = operation("lefttrim", s, count, <<>>, FALSE, FALSE)
    /\ nops' = nops + 1
    /\ UNCHANGED <<profile, domains, padding, helices, pc, jpos, topo, writes, bases>>
    /\ UNCHANGED <<template, closed>>

\* strand.sequence = new_sequence on one of the strands
SetSequence ==
    /\ pc = "done"
    /\ nops < MaxOps
    /\ \E s \in 1..Len(strands), n \in 0..MaxSeqLen :
          \E new_sequence \in [1..n -> SequenceBases] :
              LET result == set_sequence(strands[s], new_sequence, topo, bases)
              IN  /\ bases' = result.bases
                  /\ last' = operation("sequence", s, 0, new_sequence, FALSE,
                                       result.raised)
    /\ nops' = nops + 1
    /\ UNCHANGED <<profile, domains, padding, helices, pc, jpos, strands, topo, writes>>
    /\ UNCHANGED <<template, closed>>

\* Strand.randomize_sequence(overwrite) on one of the strands
RandomizeSequence ==
    /\ pc = "done"
    /\ nops < MaxOps
    /\ \E s \in 1..Len(strands), overwrite \in BOOLEAN :
          \E choices \in [1..Len(nucleosides(strands[s])) -> RandomBases] :
              LET result == randomize_sequence(strands[s], choices, overwrite,
                                               topo, bases)
              IN  /\ bases' = result.bases
                  /\ last' = operation("randomize_sequence", s, 0, <<>>, overwrite,
                                       result.raised)
    /\ nops' = nops + 1
    /\ UNCHANGED <<profile, domains, padding, helices, pc, jpos, strands, topo, writes>>
    /\ UNCHANGED <<template, closed>>

\* Strand.clear_sequence(overwrite) on one of the strands
ClearSequence ==
    /\ pc = "done"
    /\ nops < MaxOps
    /\ \E s \in 1..Len(strands), overwrite \in BOOLEAN :
          /\ bases' = clear_sequence(strands[s], overwrite, bases)
          /\ last' = operation("clear_sequence", s, 0, <<>>, overwrite, FALSE)
    /\ nops' = nops + 1
    /\ UNCHANGED <<profile, domains, padding, helices, pc, jpos, strands, topo, writes>>
    /\ UNCHANGED <<template, closed>>

\* strand.closed = True on one of the strands, as made when a strand is
\* joined into a loop
SetClosed ==
    /\ pc = "done"
    /\ \E s \in 1..Len(strands) :
          /\ Len(strands[s]) > 0
          /\ ~closed[s]
          /\ closed' = [closed EXCEPT ![s] = TRUE]
    /\ UNCHANGED <<profile, domains, padding, helices, pc, jpos, strands, topo, writes>>
    /\ UNCHANGED <<last, bases, nops, template>>

\* Plotter._plot() over the current strands, as run by Plotter.refresh()
Plot ==
    /\ pc = "done"
    /\ nops < MaxOps
    /\ strands' = [s \in 1..Len(strands) |-> plotted_items(strands[s], closed[s])]
    /\ last' = [op |-> "plot", before |-> strands]
    /\ nops' = nops + 1
    /\ UNCHANGED <<profile, domains, padding, helices, pc, jpos, topo, writes, bases>>
    /\ UNCHANGED <<template, closed>>

\* Domains.domains() on a Domains object
ListDomains ==
    /\ pc = "new"
    /\ domains' = domains_of(template)
    /\ template' = [template EXCEPT
                        !.subunit = SubSeq(domains', 1, Len(template.subunit))]
    /\ last' = [op |-> "domains", before |-> template]
    /\ pc' = "listed"
    /\ UNCHANGED <<profile, padding, helices, jpos, strands, topo, writes>>
    /\ UNCHANGED <<bases, nops, closed>>

\* a call of subunits(), domains() or strands() on the Domains object
CallSubunits ==
    /\ pc = "domains"
    /\ nops < MaxOps
    /\ LET call == call_subunits(template)
       IN  /\ template' = call.obj
           /\ last' = [op |-> "subunits", result |-> call.result]
    /\ nops' = nops + 1
    /\ UNCHANGED <<profile, domains, padding, helices, pc, jpos, strands, topo>>
    /\ UNCHANGED <<writes, bases, closed>>

CallDomains ==
    /\ pc = "domains"
    /\ nops < MaxOps
    /\ LET call == call_domains(template)
       IN  /\ template' = call.obj
           /\ last' = [op |-> "domains", result |-> call.result]
    /\ nops' = nops + 1
    /\ UNCHANGED <<profile, domains, padding, helices, pc, jpos, strands, topo>>
    /\ UNCHANGED <<writes, bases, closed>>

CallStrands ==
    /\ pc = "domains"
    /\ nops < MaxOps
    /\ LET call == call_strands(template)
       IN  /\ template' = call.obj
           /\ last' = [op |-> "strands", result |-> call.result]
    /\ nops' = nops + 1
    /\ UNCHANGED <<profile, domains, padding, helices, pc, jpos, strands, topo>>
    /\ UNCHANGED <<writes, bases, closed>>

\* domains.subunit = new_subunit
ReplaceSubunit ==
    /\ pc = "domains"
    /\ nops < MaxOps
    /\ \E new_subunit \in CacheSubunits :
          template' = set_subunit(template, new_subunit)
    /\ last' = [op |-> "subunit"]
    /\ nops' = nops + 1
    /\ UNCHANGED <<profile, domains, padding, helices, pc, jpos, strands, topo>>
    /\ UNCHANGED <<writes, bases, closed>>

NextCompute == Compute

SpecCompute == InitCompute /\ [][NextCompute]_vars

\* the counts of the two helices tried in the whole lifecycle: helices without
\* a NEMid, helices long enough to meet the next domain, equal and unequal
\* lengths
LifecycleCounts ==
    { <<[bottom_count |-> 0, body_count |-> 0, top_count |-> 0],
        [bottom_count |-> 0, body_count |-> 1, top_count |-> 0]>>,
      <<[bottom_count |-> 0, body_count |-> 1, top_count |-> 1],
        [bottom_count |-> 0, body_count |-> 1, top_count |-> 1]>>,
      <<[bottom_count |-> 1, body_count |-> 1, top_count |-> 1],
        [bottom_count |-> 0, body_count |-> 1, top_count |-> 0]>>,
      <<[bottom_count |-> 0, body_count |-> 0, top_count |-> 1],
        [bottom_count |-> 1, body_count |-> 1, top_count |-> 0]>> }

\* the whole lifecycle, over inputs that let junctions occur
Init ==
    /\ profile \in Profiles
    /\ padding \in {0, MaxPadding}
    /\ \E n \in 1..MaxDomains, counts \in LifecycleCounts, theta_m \in ThetaMs :
          domains \in DomainLists(n, {counts[1]}, {counts[2]}, {theta_m})
    /\ Constructed

\* the scenario of two identical domains with counts (2, 10, 2) on both helices
ScenarioCount == [bottom_count |-> 2, body_count |-> 10, top_count |-> 2]

InitScenario ==
    /\ profile \in Profiles
    /\ padding = 0
    /\ \E theta_m \in ThetaMs, left \in Directions, right \in Directions :
          domains = [d \in 1..2 |->
                        [left_helix_joint |-> left,
                         right_helix_joint |-> right,
                         left_helix_count |-> ScenarioCount,
                         other_helix_count |-> ScenarioCount,
                         theta_m |-> theta_m]]
    /\ Constructed

Next ==
    \/ Compute
    \/ StrandsBegin
    \/ JunctionStep
    \/ Matching
    \/ Generate
    \/ LeftGenerate

Spec == Init /\ [][Next]_vars

\* the strands of one domain, for the operations on a strand
InitStrand ==
    /\ profile \in StrandProfiles
    /\ padding = 0
    /\ \E counts \in LifecycleCounts :
          domains \in DomainLists(1, {counts[1]}, {counts[2]}, {120})
    /\ Constructed

\* strands() followed by trims of the strands
NextTrim ==
    \/ Compute
    \/ StrandsBegin
    \/ JunctionStep
    \/ Matching
    \/ Trim
    \/ LeftTrim

SpecTrim == InitStrand /\ [][NextTrim]_vars

\* strands() followed by operations on the base sequences of the strands
NextSequence ==
    \/ Compute
    \/ StrandsBegin
    \/ JunctionStep
    \/ Matching
    \/ SetSequence
    \/ RandomizeSequence
    \/ ClearSequence

SpecSequence == InitStrand /\ [][NextSequence]_vars

\* a Domains object: a template subunit of one to MaxSubunit domains with any
\* joints, a symmetry, antiparallel or not
InitDomains ==
    /\ profile \in StrandProfiles
    /\ padding = 0
    /\ \E n \in 1..MaxSubunit, symmetry \in 1..MaxSymmetry, antiparallel \in BOOLEAN :
          \E subunit \in DomainLists(n, {ScenarioCount}, {ScenarioCount}, {120}) :
              template = [subunit |-> subunit, symmetry |-> symmetry,
                          antiparallel |-> antiparallel]
    /\ domains = <<>>
    /\ helices = <<>>
    /\ pc = "new"
    /\ jpos = <<0, UP, UP, 0>>
    /\ strands = <<>>
    /\ topo = <<>>
    /\ writes = <<>>
    /\ last = [op |-> "none"]
    /\ bases = <<>>
    /\ nops = 0
    /\ closed = <<>>

NextDomains == ListDomains

SpecDomains == InitDomains /\ [][NextDomains]_vars

\* a Domains object none of whose cached methods has been called
InitCache ==
    /\ profile \in StrandProfiles
    /\ padding = 0
    /\ \E subunit \in CacheSubunits, symmetry \in 1..MaxSymmetry,
          antiparallel \in BOOLEAN :
          template = [subunit |-> subunit, symmetry |-> symmetry,
                      antiparallel |-> antiparallel, version |-> 0,
                      subunits_cache |-> NoCache, domains_cache |-> NoCache,
                      strands_cache |-> NoCache]
    /\ domains = <<>>
    /\ helices = <<>>
    /\ pc = "domains"
    /\ jpos = <<0, UP, UP, 0>>
    /\ strands = <<>>
    /\ topo = <<>>
    /\ writes = <<>>
    /\ last = [op |-> "none"]
    /\ bases = <<>>
    /\ nops = 0
    /\ closed = <<>>

NextCache ==
    \/ CallSubunits
    \/ CallDomains
    \/ CallStrands
    \/ ReplaceSubunit

SpecCache == InitCache /\ [][NextCache]_vars

\* counts of helices of up to B + 1 NEMids without padding
AnchorCounts ==
    [bottom_count : 0..MaxCount, body_count : 0..(MaxCount + 1), top_count : {MaxCount}]

\* compute() over helices of more than B NEMids, also for a profile whose B
\* bases do not make a whole number of turns
InitAnchor ==
    /\ profile \in AnchorProfiles
    /\ padding \in {0, MaxPadding}
    /\ \E n \in 1..MaxDomains, count \in AnchorCounts, theta_m \in ThetaMs :
          domains \in DomainLists(n, {count}, {count}, {theta_m})
    /\ Constructed

SpecAnchor == InitAnchor /\ [][NextCompute]_vars

\* the domains tried where every domain of the list has counts and joints of
\* its own
DomainChoices(theta_m) ==
    {[left_helix_joint |-> left,
      right_helix_joint |-> right,
      left_helix_count |-> counts[1],
      other_helix_count |-> counts[2],
      theta_m |-> theta_m] :
         left \in Directions, right \in Directions, counts \in LifecycleCounts}

\* compute() over lists whose domains differ from one another
InitSequential ==
    /\ profile \in Profiles
    /\ padding \in {0, MaxPadding}
    /\ \E n \in 1..MaxDomains, theta_m \in ThetaMs :
          domains \in [1..n -> DomainChoices(theta_m)]
    /\ Constructed

SpecSequential == InitSequential /\ [][NextCompute]_vars

\* compute() and strands() over profiles that bring NEMids of adjacent
\* domains close to one another
InitJunctions ==
    /\ profile \in SwitchProfiles
    /\ padding = 0
    /\ \E n \in 1..MaxDomains, counts \in LifecycleCounts, theta_m \in ThetaMs :
          domains \in DomainLists(n, {counts[1]}, {counts[2]}, {theta_m})
    /\ Constructed

NextJunctions ==
    \/ Compute
    \/ StrandsBegin
    \/ JunctionStep
    \/ Matching

SpecJunctions == InitJunctions /\ [][NextJunctions]_vars

\* compute() called twice
NextComputeTwice ==
    \/ Compute
    \/ ComputeAgain

SpecComputeTwice == InitSequential /\ [][NextComputeTwice]_vars

\* strands() followed by the closing of strands and redraws of the side view
NextPlot ==
    \/ Compute
    \/ StrandsBegin
    \/ JunctionStep
    \/ Matching
    \/ SetClosed
    \/ Plot

SpecPlot == InitStrand /\ [][NextPlot]_vars

\* a cyclic sequence of one domain: the double helix is its own neighbour
InitSingle ==
    /\ profile \in Profiles
    /\ padding \in {0, MaxPadding}
    /\ \E counts \in LifecycleCounts, theta_m \in ThetaMs :
          domains \in DomainLists(1, {counts[1]}, {counts[2]}, {theta_m})
    /\ Constructed

\* compute() and strands() are loops over finite sequences run by one thread:
\* a step that can be taken is taken
SpecSingle == InitSingle /\ [][Next]_vars /\ WF_vars(Next)

SpecScenario == InitScenario /\ [][Next]_vars

----------------------------------------------------------------------------
(* Properties of compute().                                                *)

Helices == {<<d, h>> : d \in 1..Len(helices), h \in Directions}

DataOf(dh) == helices[dh[1]][dh[2]]

\* C5: after compute(), the x, z and angle arrays of every helix have the
\* same length.
C5_EqualLength ==
    pc = "computed" =>
        \A dh \in Helices :
            /\ Len(DataOf(dh).x_coords) = Len(DataOf(dh).z_coords)
            /\ Len(DataOf(dh).z_coords) = Len(DataOf(dh).angles)

\* C6: after compute(), for every helix and every index k, x_coords[k] is
\* the x of angles[k] in the helix's domain.
C6_XFromAngle ==
    pc = "computed" =>
        \A dh \in Helices :
            /\ Len(DataOf(dh).x_coords) = Len(DataOf(dh).angles)
            /\ \A k \in 0..(Len(DataOf(dh).angles) - 1) :
                   At(DataOf(dh).x_coords, k) =
                       x_coord_from_angle(At(DataOf(dh).angles, k),
                                          domains[dh[1]].theta_m, dh[1] - 1)

\* a reversed helix whose x array is not its own mirror image
C6_Witness ==
    /\ pc = "computed"
    /\ \E d \in 1..Len(helices) :
          /\ Len(helices[d][DOWN].x_coords) >= 3
          /\ flip(helices[d][DOWN].x_coords) # helices[d][DOWN].x_coords
          /\ padding > 0

\* C7: every helix produced by compute() has an odd number of samples, for
\* every padding.
C7_OddLength ==
    pc = "computed" =>
        \A dh \in Helices :
            /\ Len(DataOf(dh).z_coords) % 2 = 1
            /\ Len(DataOf(dh).angles) % 2 = 1
            /\ Len(DataOf(dh).x_coords) % 2 = 1

\* the z array of the zeroed helix of double helix d in generation order
ZeroedZ(d) ==
    LET h == zeroed_direction(domains[d])
    IN  IF h = DOWN THEN flip(helices[d][h].z_coords) ELSE helices[d][h].z_coords

\* the z of the NEMid of largest x among the first B NEMids of the right-joint
\* helix of double helix d, reduced modulo |Z_b * B|
AnchorAfter(d) ==
    LET right == right_helix(helices[d], domains[d])
        nemid_x == [i \in 1..Min(profile.B, Len(right.x_coords) \div 2) |->
                       At(right.x_coords, 2 * i - 1)]
        best == CHOOSE i \in 1..Len(nemid_x) :
                    /\ \A j \in 1..Len(nemid_x) : nemid_x[j] <= nemid_x[i]
                    /\ \A j \in 1..(i - 1) : nemid_x[j] < nemid_x[i]
    IN  At(right.z_coords, 2 * best - 1) % Abs(profile.Z_b * profile.B)

IsScenario ==
    /\ Len(domains) = 2
    /\ domains[1] = domains[2]
    /\ domains[1].left_helix_count = ScenarioCount
    /\ domains[1].other_helix_count = ScenarioCount

----------------------------------------------------------------------------
(* Properties of strands(): junctions.                                     *)

\* the point of a helix by its id <<double helix, direction, index>>
PointOf(id) == At(helix_items(id[1], id[2], helices[id[1]][id[2]]), id[3])

Finished == pc = "done"

IsNEMidId(id) == id[3] % 2 = 1

\* the ids of the NEMids of the double helix at `index`
NEMidIdsOf(index) == {id \in DOMAIN topo : id[1] = index + 1 /\ IsNEMidId(id)}

\* C1: after strands(), p.juncmate is not None implies p.juncmate.juncmate is p.
C1_JuncmateSymmetric ==
    Finished =>
        \A p \in DOMAIN topo :
            topo[p].juncmate # None => topo[topo[p].juncmate].juncmate = p

\* C3: after strands(), NEMids p1 on double helix d and p2 on next(d) with the
\* same fractional x that pass the overlap test are each other's juncmate,
\* and both are junctable.
C3_MatchingPairJoined ==
    Finished =>
        \A index \in 0..(Len(domains) - 1) :
            \A p1 \in NEMidIdsOf(index),
               p2 \in NEMidIdsOf(next_index(index, Len(domains))) :
                PairMatches(PointOf(p1), PointOf(p2), Len(domains)) =>
                    /\ topo[p1].juncmate = p2
                    /\ topo[p2].juncmate = p1
                    /\ topo[p1].junctable
                    /\ topo[p2].junctable

\* C4: after strands(), whenever p.juncmate is q, p and q are NEMids of
\* cyclically adjacent double helices, their x-coordinates are equal modulo 1
\* and they pass the overlap test.
C4_JuncmateSound ==
    Finished =>
        \A p \in DOMAIN topo :
            LET q == topo[p].juncmate
            IN  q # None =>
                    /\ q \in DOMAIN topo
                    /\ IsNEMidId(p) /\ IsNEMidId(q)
                    /\ \/ q[1] - 1 = next_index(p[1] - 1, Len(domains))
                       \/ p[1] - 1 = next_index(q[1] - 1, Len(domains))
                    /\ PointOf(p).x_coord % XScale = PointOf(q).x_coord % XScale
                    /\ overlaps(PointOf(p), PointOf(q), Len(domains))

\* two NEMids of different double helices are juncmates
C4_Witness ==
    /\ Finished
    /\ \E p \in DOMAIN topo :
          /\ topo[p].juncmate # None
          /\ topo[p].juncmate[1] # p[1]

----------------------------------------------------------------------------
(* Properties of strands(): matching.                                      *)

HelixItems(d, h) == helix_items(d, h, helices[d][h])

\* the ids of the NEMids (odd-index items) of a helix, in index order
NEMidsOfHelix(d, h) ==
    LET items == SliceFrom(HelixItems(d, h), 1, 2)
    IN  [i \in 1..Len(items) |-> items[i].id]

\* C2: after strands(), the k-th NEMid of the UP helix has as its matching the
\* k-th NEMid of the DOWN helix taken in reverse order, for every k up to the
\* length of the shorter helix.
C2_NEMidsMatchedByPosition ==
    Finished =>
        \A d \in 1..Len(domains) :
            LET up == NEMidsOfHelix(d, UP)
                down == flip(NEMidsOfHelix(d, DOWN))
            IN  \A k \in 1..Min(Len(up), Len(down)) :
                    /\ topo[up[k]].matching = down[k]
                    /\ topo[down[k]].matching = up[k]

----------------------------------------------------------------------------
(* Properties of generate() / leftgenerate().                              *)

Extended == last.op \in {"generate", "leftgenerate"}

NEMidCount(items) == Cardinality({i \in 1..Len(items) : items[i].kind = NEMid})

\* the values read in index order form one arithmetic sequence of this step
Arithmetic(values, step) ==
    \A i \in 1..(Len(values) - 1) : values[i + 1] - values[i] = step

ZOf(items) == [i \in 1..Len(items) |-> items[i].z_coord]

AngleOf(items) == [i \in 1..Len(items) |-> items[i].angle]

\* C9: after generate / leftgenerate on the strand of a computed helix, the
\* z and the angle values of the whole strand, read in index order, form one
\* arithmetic sequence with the per-index step the strand had before.
C9_ExtensionContinues ==
    (Extended /\ Len(last.before) >= 2) =>
        LET after == strands[last.strand]
            z_step == last.before[2].z_coord - last.before[1].z_coord
            angle_step == last.before[2].angle - last.before[1].angle
        IN  /\ Arithmetic(ZOf(after), z_step)
            /\ Arithmetic(AngleOf(after), angle_step)

\* C10: generate / leftgenerate add exactly `count` NEMids, each with its
\* Nucleoside, on the requested side; a count of 0 leaves the strand as it is.
C10_AddsCountNEMids ==
    Extended =>
        LET after == strands[last.strand]
            before == last.before
        IN  /\ NEMidCount(after) = NEMidCount(before) + last.count
            /\ Len(after) = Len(before) + 2 * last.count
            /\ last.op = "generate" => SubSeq(after, 1, Len(before)) = before
            /\ last.op = "leftgenerate" =>
                   SubSeq(after, Len(after) - Len(before) + 1, Len(after)) = before
            /\ last.count = 0 => after = before

\* the strand a generate / leftgenerate extended, the points it added and the
\* edge point they were extrapolated from
AfterItems == strands[last.strand]

NewItems ==
    IF last.op = "generate"
    THEN SubSeq(AfterItems, Len(last.before) + 1, Len(AfterItems))
    ELSE SubSeq(AfterItems, 1, Len(AfterItems) - Len(last.before))

EdgeItem ==
    IF last.op = "generate" THEN last.before[Len(last.before)] ELSE last.before[1]

\* C11 as stated: every point added by generate / leftgenerate has the domain
\* and the direction of the edge point, whatever domain argument was passed.
C11_InheritsEdgeDomain ==
    Extended =>
        \A i \in 1..Len(NewItems) :
            /\ NewItems[i].domain = EdgeItem.domain
            /\ NewItems[i].direction = EdgeItem.direction

\* C11 as amended: every point added by generate / leftgenerate has the
\* direction of the edge point, and as its domain the domain argument when one
\* is passed and the edge point's domain when none is passed.
C11_InheritsDirectionAndArgument ==
    Extended =>
        \A i \in 1..Len(NewItems) :
            /\ NewItems[i].direction = EdgeItem.direction
            /\ NewItems[i].domain =
                   IF last.domain # NoDomain THEN last.domain ELSE EdgeItem.domain

\* a DOWN strand was extended with the domain argument naming another domain
C11_Witness ==
    /\ Extended
    /\ Len(NewItems) > 0
    /\ last.domain # NoDomain
    /\ last.domain # EdgeItem.domain
    /\ EdgeItem.direction = DOWN

----------------------------------------------------------------------------
(* Properties of the NEMid flags.                                          *)

\* C12: in every state during and after strands(), a NEMid is junctable if
\* and only if it has a juncmate.
C12_JunctableIffJuncmate ==
    \A p \in DOMAIN topo : topo[p].junctable <=> (topo[p].juncmate # None)

\* the junction pass is under way: one NEMid is junctable, another is not yet
C12_Witness ==
    /\ pc = "junctions"
    /\ jpos # <<0, UP, UP, 0>>
    /\ \E p \in DOMAIN topo : IsNEMidId(p) /\ topo[p].junctable
    /\ \E q \in DOMAIN topo : IsNEMidId(q) /\ ~topo[q].junctable

\* C14: compute() and strands() never change the junction flag: it is false
\* on every NEMid, also on the NEMids that were made junctable.
C14_JunctionUntouched ==
    \A p \in DOMAIN topo : topo[p].junction = FALSE

\* strands() has finished and made a NEMid junctable
C14_Witness ==
    /\ Finished
    /\ \E p \in DOMAIN topo : IsNEMidId(p) /\ topo[p].junctable /\ ~topo[p].junction

\* C13: after strands(), every point p that has a matching is the matching of
\* its matching.
C13_MatchingSymmetric ==
    Finished =>
        \A p \in DOMAIN topo :
            topo[p].matching # None =>
                /\ topo[p].matching \in DOMAIN topo
                /\ topo[topo[p].matching].matching = p

\* strands() has finished and matched an item of an up helix with an item of
\* the down helix of the same double helix
C13_Witness ==
    /\ Finished
    /\ \E p \in DOMAIN topo :
          /\ p[2] = UP
          /\ topo[p].matching # None
          /\ topo[p].matching[2] = DOWN
          /\ topo[p].matching[1] = p[1]

----------------------------------------------------------------------------
(* Properties of a cyclic sequence of one domain.                          *)

\* one domain, both of whose helices have a body count above 0
SingleWithBody ==
    /\ Len(domains) = 1
    /\ domains[1].left_helix_count.body_count > 0
    /\ domains[1].other_helix_count.body_count > 0

\* helix h of the single double helix has a junctable NEMid whose juncmate
\* lies in the same double helix
HasJunctable(h) ==
    \E p \in DOMAIN topo :
        /\ p[1] = 1 /\ p[2] = h /\ IsNEMidId(p)
        /\ topo[p].junctable
        /\ topo[p].juncmate[1] = 1

----------------------------------------------------------------------------
(* Properties of the operations on a strand.                               *)

\* the last operation assigned a sequence of another length than the strand
\* has Nucleosides
WrongLength ==
    /\ last.op = "sequence"
    /\ Len(last.new_sequence) # Len(nucleosides(last.before))

\* C16: assigning Strand.sequence a list whose length differs from the
\* number of Nucleosides of the strand raises and leaves every base unchanged.
C16_WrongLengthRaises ==
    WrongLength => (last.raised /\ bases = last.bases_before)

\* a sequence of the wrong length, not empty, was assigned to a strand while
\* some base was set
C16_Witness ==
    /\ WrongLength
    /\ Len(last.new_sequence) > 0
    /\ Len(nucleosides(last.before)) > 0
    /\ \E id \in DOMAIN bases : bases[id] # NoBase

\* C17: trim(count) removes exactly count items from the right side: the
\* strand keeps its former first len - count items, in order.
C17_TrimRemovesCount ==
    last.op = "trim" =>
        strands[last.strand] =
            SubSeq(last.before, 1, Len(last.before) - last.count)

\* C18: randomize_sequence(overwrite=False) leaves every base that was set
\* before the call as it was, in this strand and in every other.
C18_KeepsSetBases ==
    (last.op = "randomize_sequence" /\ ~last.overwrite) =>
        \A id \in DOMAIN bases :
            last.bases_before[id] # NoBase => bases[id] = last.bases_before[id]

----------------------------------------------------------------------------
(* Properties of Domains.domains().                                        *)

\* C19: when antiparallel is true, every domain of the list returned by
\* domains() has its left joint equal to its right joint, and domains at
\* consecutive positions of the list have opposite directions.
C19_AntiparallelAlternates ==
    (pc = "listed" /\ template.antiparallel) =>
        /\ \A i \in 1..Len(domains) :
               domains[i].left_helix_joint = domains[i].right_helix_joint
        /\ \A i \in 1..(Len(domains) - 1) :
               domains[i + 1].left_helix_joint = inverse(domains[i].left_helix_joint)

\* an antiparallel list of several subunits of odd length, from a template
\* with a domain whose joints differed
C19_Witness ==
    /\ pc = "listed"
    /\ template.antiparallel
    /\ template.symmetry >= 2
    /\ Len(template.subunit) % 2 = 1
    /\ Len(domains) = template.symmetry * Len(template.subunit)
    /\ \E i \in 1..Len(template.subunit) :
          last.before.subunit[i].left_helix_joint
              # last.before.subunit[i].right_helix_joint

----------------------------------------------------------------------------
(* Properties of the anchor of compute().                                  *)

\* the angle array of the zeroed helix of double helix d in generation order
ZeroedAngle(d) ==
    LET h == zeroed_direction(domains[d])
    IN  IF h = DOWN THEN flip(helices[d][h].angles) ELSE helices[d][h].angles

\* the zeroed helix of double helix d starts where the anchor z puts it: the
\* anchor reduced modulo Z_b, and the angle of the whole steps between the
\* two, both moved down by bottom_count steps and a half
StartsFrom(d, anchor) ==
    LET bottom == domains[d].left_helix_count.bottom_count
        steps == anchor \div profile.Z_b
    IN  /\ At(ZeroedZ(d), 0) =
               (anchor % profile.Z_b) - bottom * profile.Z_b - (profile.Z_b \div 2)
        /\ At(ZeroedAngle(d), 0) =
               (-(steps * profile.theta_b) - bottom * profile.theta_b
                   - (profile.theta_b \div 2)) % FullTurn

\* the x-coordinates of the first n NEMids of the right-joint helix of d
FirstNEMidX(d, n) ==
    LET right == right_helix(helices[d], domains[d])
    IN  [i \in 1..Min(n, Len(right.x_coords) \div 2) |-> At(right.x_coords, 2 * i - 1)]

\* the anchors the first 2 * B NEMids of the right-joint helix of d can give:
\* the z of a NEMid of largest x among them, reduced modulo |Z_b * B|
AnchorsOfFirst2B(d) ==
    LET right == right_helix(helices[d], domains[d])
        xs == FirstNEMidX(d, 2 * profile.B)
    IN  {At(right.z_coords, 2 * i - 1) % Abs(profile.Z_b * profile.B) :
             i \in {j \in 1..Len(xs) : \A k \in 1..Len(xs) : xs[k] <= xs[j]}}

----------------------------------------------------------------------------
(* Properties of the other helix of compute().                             *)

\* the z and the angle array of the other helix of double helix d in
\* generation order
OtherZ(d) ==
    LET h == other_direction(domains[d])
    IN  IF h = DOWN THEN flip(helices[d][h].z_coords) ELSE helices[d][h].z_coords

OtherAngle(d) ==
    LET h == other_direction(domains[d])
    IN  IF h = DOWN THEN flip(helices[d][h].angles) ELSE helices[d][h].angles

\* -1 if the other helix of double helix d is the down helix, else +1
switch_sign(d) == IF other_direction(domains[d]) = DOWN THEN -1 ELSE 1

EqualCounts(d) == domains[d].left_helix_count = domains[d].other_helix_count

\* the number of samples of a helix of these counts when there is no padding
SpanOf(count) == 2 * (count.bottom_count + count.body_count + count.top_count) + 1

\* C21 as stated: when both helix counts of a double helix are equal, the
\* first z and the first angle of the other helix before reversal are those
\* of the zeroed helix offset by exactly -switch_sign * Z_mate and
\* -switch_sign * g.
C21_OtherOffsetExact ==
    pc = "computed" =>
        \A d \in 1..Len(domains) :
            EqualCounts(d) =>
                /\ At(OtherZ(d), 0) - At(ZeroedZ(d), 0) = -(switch_sign(d) * profile.Z_mate)
                /\ At(OtherAngle(d), 0) - At(ZeroedAngle(d), 0) = -(switch_sign(d) * profile.g)

\* C21 as amended: when both helix counts are equal, the first z of the other
\* helix before reversal is that of the zeroed helix offset by exactly
\* -switch_sign * Z_mate, and its first angle is that of the zeroed helix
\* offset by -switch_sign * g up to whole turns; without padding the other
\* helix spans other_helix_count.
C21_OtherOffsetModuloTurn ==
    pc = "computed" =>
        \A d \in 1..Len(domains) :
            /\ EqualCounts(d) =>
                   /\ At(OtherZ(d), 0) - At(ZeroedZ(d), 0) =
                          -(switch_sign(d) * profile.Z_mate)
                   /\ (At(OtherAngle(d), 0) - At(ZeroedAngle(d), 0)) % FullTurn =
                          (-(switch_sign(d) * profile.g)) % FullTurn
            /\ padding = 0 =>
                   /\ Len(OtherZ(d)) = SpanOf(domains[d].other_helix_count)
                   /\ Len(OtherAngle(d)) = SpanOf(domains[d].other_helix_count)

\* a second double helix of equal counts whose anchor is a whole step above
\* 0, with its other helix up, and one with its other helix down
C21_Witness ==
    /\ pc = "computed"
    /\ Len(domains) >= 2
    /\ EqualCounts(2)
    /\ domains[2].left_helix_count.body_count > 0
    /\ AnchorAfter(1) >= profile.Z_b
    /\ switch_sign(1) # switch_sign(2)

----------------------------------------------------------------------------
(* Properties of the reversal of the down helix.                           *)

StrictlyIncreasing(values) ==
    \A i \in 1..(Len(values) - 1) : values[i] < values[i + 1]

StrictlyDecreasing(values) ==
    \A i \in 1..(Len(values) - 1) : values[i] > values[i + 1]

\* C22: after compute(), in every double helix the z_coords of the UP helix
\* are strictly increasing by index and the z_coords of the DOWN helix are
\* strictly decreasing by index, whichever of the two is the zeroed helix.
C22_DownHelixReversedOnce ==
    pc = "computed" =>
        \A d \in 1..Len(domains) :
            /\ StrictlyIncreasing(helices[d][UP].z_coords)
            /\ StrictlyDecreasing(helices[d][DOWN].z_coords)

\* a double helix whose zeroed helix is the down helix beside one whose zeroed
\* helix is the up helix, each helix of several samples
C22_Witness ==
    /\ pc = "computed"
    /\ Len(domains) >= 2
    /\ zeroed_direction(domains[1]) = DOWN
    /\ zeroed_direction(domains[2]) = UP
    /\ \A dh \in Helices : Len(DataOf(dh).z_coords) >= 3

----------------------------------------------------------------------------
(* Properties of the order of compute().                                   *)

\* compute() has run, to its end or until it raised
Computed == pc \in {"computed", "compute_raised"}

\* what compute() gives for the list of the domains 0 .. i-1 alone
ComputedAlone(i) ==
    compute_upto(i, SubSeq(domains, 1, i), profile, padding,
                 [d \in 1..i |-> EmptyDoubleHelix])

\* C23: the arrays compute() leaves for domain i are those it computes for the
\* list of the domains 0..i alone, with the same profile and padding, whatever
\* the counts and joints of the domains after i: two runs that differ only in
\* the domains after i leave the same arrays for domain i.
C23_DependsOnEarlierDomainsOnly ==
    Computed =>
        \A i \in 1..Len(domains) :
            helices[i] = ComputedAlone(i).double_helices[i]

\* compute() has run over a list whose last domain differs from domain 0 in
\* its counts and its joints, and whose last right-joint helix would give an
\* anchor other than 0
C23_Witness ==
    /\ pc = "computed"
    /\ Len(domains) >= 2
    /\ domains[Len(domains)].left_helix_count # domains[1].left_helix_count
    /\ domains[Len(domains)].left_helix_joint # domains[1].left_helix_joint
    /\ ~AlignedRaises(right_helix(helices[Len(domains)], domains[Len(domains)]),
                      profile.B)
    /\ AnchorAfter(Len(domains)) # 0
    /\ Len(helices[1][UP].z_coords) >= 3

----------------------------------------------------------------------------
(* Properties of the pre-filter of the junction pass.                      *)

\* the pre-filter of the junction pass: equal x-coordinates modulo 1
PreFilter(point1, point2) == point1.x_coord % XScale = point2.x_coord % XScale

\* C24: for every pair of NEMids on adjacent double helices, if the overlap
\* test with the domain count as width accepts the pair, the pre-filter
\* accepts it too.
C24_PreFilterNeverRejectsOverlap ==
    Finished =>
        \A index \in 0..(Len(domains) - 1) :
            \A p1 \in NEMidIdsOf(index),
               p2 \in NEMidIdsOf(next_index(index, Len(domains))) :
                overlaps(PointOf(p1), PointOf(p2), Len(domains)) =>
                    PreFilter(PointOf(p1), PointOf(p2))

----------------------------------------------------------------------------
(* Properties of the writes of the junction pass.                          *)

\* the ordered pair evaluations of the junction pass that pass both tests:
\* <<index, point1, point2>>
AcceptedEvaluations ==
    {e \in UNION {{<<index, p1, p2>> :
                      p1 \in NEMidIdsOf(index),
                      p2 \in NEMidIdsOf(next_index(index, Len(domains)))} :
                  index \in 0..(Len(domains) - 1)} :
        test_pair(PointOf(e[2]), PointOf(e[3]), Len(domains))}

\* C25 as stated: during one run of strands(), the junctable / juncmate
\* fields of any given NEMid are written at most once.
C25_WrittenAtMostOnce ==
    \A p \in DOMAIN writes : writes[p] <= 1

\* C25 as amended: one run of strands() writes the junctable / juncmate
\* fields of a NEMid once for every accepted evaluation in which it is point1
\* and once for every accepted evaluation in which it is point2, never more
\* often than that during the run.
C25_WrittenOncePerAcceptedEvaluation ==
    pc \in {"junctions", "matching", "done"} =>
        LET accepted == AcceptedEvaluations
            count == [p \in DOMAIN writes |->
                         Cardinality({e \in accepted : e[2] = p})
                           + Cardinality({e \in accepted : e[3] = p})]
        IN  /\ \A p \in DOMAIN writes : writes[p] <= count[p]
            /\ Finished => \A p \in DOMAIN writes : writes[p] = count[p]

\* with two domains a pair of NEMids of the two double helices was accepted
\* in both orders, and each of the two was written twice
C25_Witness ==
    /\ Finished
    /\ Len(domains) = 2
    /\ \E p \in DOMAIN writes :
          /\ writes[p] = 2
          /\ topo[p].juncmate[1] # p[1]
          /\ writes[topo[p].juncmate] = 2

----------------------------------------------------------------------------
(* Properties of a second call of compute().                               *)

\* C26: a second call of compute() on the same DoubleHelices leaves the x, z
\* and angle arrays of every helix as they were after the first call, the
\* orientation of the down helix included, and ends as the first call did.
C26_ComputeIdempotent ==
    last.op = "compute" =>
        /\ helices = last.before
        /\ pc = last.pc_before

\* compute() ran twice to its end over two domains, the second anchored on a
\* down helix of the first that is not its own mirror image
C26_Witness ==
    /\ last.op = "compute"
    /\ pc = "computed"
    /\ Len(domains) >= 2
    /\ domains[1].right_helix_joint = DOWN
    /\ Len(helices[1][DOWN].z_coords) >= 3
    /\ flip(helices[1][DOWN].x_coords) # helices[1][DOWN].x_coords

----------------------------------------------------------------------------
(* Properties of the juncmate of a NEMid.                                  *)

\* C27: after strands(), no NEMid is its own juncmate and no NEMid has its
\* juncmate on its own helix, for every number of domains.
C27_JuncmateOnAnotherHelix ==
    Finished =>
        \A p \in DOMAIN topo :
            topo[p].juncmate # None =>
                /\ topo[p].juncmate # p
                /\ <<topo[p].juncmate[1], topo[p].juncmate[2]>> # <<p[1], p[2]>>

----------------------------------------------------------------------------
(* Properties of the completion of compute().                              *)

\* C28: for every list of two or more domains with non-negative counts,
\* compute() completes without raising: the argmax over the NEMid
\* x-coordinates of the previous right-joint helix is never taken over an
\* empty array.
C28_ComputeNeverRaises ==
    Len(domains) >= 2 => pc # "compute_raised"

----------------------------------------------------------------------------
(* Properties of Plotter._plot().                                          *)

\* C29: _plot() does not modify the strands it draws: every strand, closed
\* or open, has the same items after plotting as before.
C29_PlotLeavesStrands ==
    last.op = "plot" =>
        \A s \in 1..Len(strands) : strands[s] = last.before[s]

----------------------------------------------------------------------------
(* Properties of the cached methods of Domains.                            *)

Called == last.op \in {"subunits", "domains", "strands"}

\* C30: after the template subunit was replaced through the setter, every
\* later call of subunits(), domains() and strands() returns a result that
\* was computed after the replacement, not one cached before it.
C30_NoStaleResult ==
    (pc = "domains" /\ Called) => last.result.version = template.version

====
